---- MODULE Spec2Model ----
(***************************************************************************)
(* Model of epoll-high-performance/server.cpp: an edge-triggered epoll     *)
(* echo server.  One reactor thread (epollLoop) accepts connections and    *)
(* enqueues a task per readiness event; THREAD_POOL_SIZE worker threads    *)
(* (ThreadPool) dequeue the tasks and run handleClient.  Every system call *)
(* of handleClient is one step, so that handlers interleave as threads do. *)
(* The kernel side (listen backlog, receive queues, the epoll interest and *)
(* ready lists, descriptor numbers) and the clients are the environment.   *)
(***************************************************************************)
EXTENDS Integers, Sequences, FiniteSets, TLC

\* ---------------------------------------------------------------- bounds
\* Number of client connections the environment opens.
MaxConns == 2
\* Number of bytes each client sends on its connection.
PayloadLen == 2

\* ------------------------------------------------------ program constants
\* server.cpp:21  (scaled down from 4096: short reads and short writes need
\* a buffer of two bytes)
BUFFER_SIZE == 2
\* server.cpp:22  (scaled down from 4)
THREAD_POOL_SIZE == 2
\* server.cpp:20
MAX_EVENTS == 1024

\* Descriptor numbers: 0..2 are the standard streams, socket() returns 3,
\* epoll_create1() returns 4, accept() returns the lowest free number.
LISTEN_FD == 3
EPOLL_FD == 4
FirstClientFd == EPOLL_FD + 1

Conns == 1..MaxConns
ClientFds == FirstClientFd..(FirstClientFd + MaxConns - 1)
Workers == 1..THREAD_POOL_SIZE
\* fdTable value of a descriptor number that is not open
Closed == 0

\* The bytes client c sends: distinct per connection and per position.
Payload(c) == [i \in 1..PayloadLen |-> 10 * c + i]

VARIABLES
    mainpc,     \* position of main()
    lsock,      \* the listening socket: "none", "open", "bound", "listening"
    nonblock,   \* descriptors with O_NONBLOCK set
    registered, \* epoll interest list (descriptors added with EPOLLIN|EPOLLET)
    ready,      \* epoll ready list (edge events not yet reported)
    rpc,        \* position of the reactor thread in epollLoop
    events,     \* events[0..nfds) not yet processed by the for loop
    client_fd,  \* epollLoop: client_fd, between accept and its registration
    tasks,      \* ThreadPool::tasks: each task is the descriptor it captured
    wpc,        \* position of each worker thread
    wfd,        \* handleClient: fd, the descriptor of the task being run
    buffer,     \* handleClient: the n bytes of buffer[] read by the last read
    total,      \* handleClient: total
    fdTable,    \* descriptor number -> connection it refers to, or Closed
    backlog,    \* connections completed by the kernel, not yet accepted
    cstate,     \* connection: "idle", "pending", "est", "closed"
    peer,       \* client end of the connection: "open", "closed"
    nsent,      \* bytes of Payload(c) the client has sent
    rx,         \* server-side receive queue of the connection
    echoed      \* bytes the server wrote to the connection, in order

vars == <<mainpc, lsock, nonblock, registered, ready, rpc, events, client_fd, tasks,
          wpc, wfd, buffer, total,
          fdTable, backlog, cstate, peer, nsent, rx, echoed>>

mainVars == <<mainpc, lsock>>
reactorVars == <<rpc, events, client_fd>>
poolVars == <<tasks>>
workerVars == <<wpc, wfd, buffer, total>>
epollVars == <<registered, ready>>
connVars == <<fdTable, backlog, cstate, peer, nsent, rx, echoed>>

\* wfd of a worker that runs no task; client_fd outside the accept loop
NoFd == -1

Min(a, b) == IF a < b THEN a ELSE b

\* ------------------------------------------------------------ kernel side
\* The descriptor of connection c while the server has it open.
FdOf(c) == CHOOSE fd \in ClientFds : fdTable[fd] = c

IsOpen(c) == \E fd \in ClientFds : fdTable[fd] = c

\* accept() returns the lowest descriptor number that is not open.
LowestFreeFd ==
    CHOOSE fd \in ClientFds :
        /\ fdTable[fd] = Closed
        /\ \A g \in ClientFds : fdTable[g] = Closed => fd <= g

\* EPOLLIN holds for a connection: data queued, or the peer closed or reset.
Readable(c) == rx[c] # <<>> \/ peer[c] # "open"

\* EPOLLIN holds for a descriptor on the interest list.
FdReadable(fd) ==
    IF fd = LISTEN_FD THEN backlog # <<>>
    ELSE fdTable[fd] # Closed /\ Readable(fdTable[fd])

\* Edge-triggered notification: something arrived on fd; it is put on the
\* ready list if fd is on the interest list.
Edge(rdy, reg, fd) == IF fd \in reg THEN rdy \cup {fd} ELSE rdy

\* Edge caused by traffic on connection c.
ConnEdge(c) ==
    IF IsOpen(c) THEN Edge(ready, registered, FdOf(c)) ELSE ready

Init ==
    /\ mainpc = "socket"
    /\ lsock = "none"
    /\ nonblock = {}
    /\ registered = {}
    /\ ready = {}
    /\ rpc = "none"
    /\ events = {}
    /\ client_fd = NoFd
    /\ tasks = <<>>
    /\ wpc = [w \in Workers |-> "none"]
    /\ wfd = [w \in Workers |-> NoFd]
    /\ buffer = [w \in Workers |-> <<>>]
    /\ total = [w \in Workers |-> 0]
    /\ fdTable = [fd \in ClientFds |-> Closed]
    /\ backlog = <<>>
    /\ cstate = [c \in Conns |-> "idle"]
    /\ peer = [c \in Conns |-> "open"]
    /\ nsent = [c \in Conns |-> 0]
    /\ rx = [c \in Conns |-> <<>>]
    /\ echoed = [c \in Conns |-> <<>>]

\* ------------------------------------------------------------------ main
\* A system call of main() that either succeeds or fails.
SysOutcomes == {"ok", "fail"}

\* Descriptor number fd is open.
FdOpen(fd) == fd = LISTEN_FD \/ fdTable[fd] # Closed

\* setNonBlocking(fd): fcntl(F_GETFL) then fcntl(F_SETFL, flags|O_NONBLOCK);
\* on an open descriptor both calls succeed, on a closed one F_GETFL fails
\* (EBADF) and the function returns -1.  No caller looks at the result.
setNonBlocking(nb, fd) == IF FdOpen(fd) THEN nb \cup {fd} ELSE nb

\* What epoll_ctl(EPOLL_CTL_ADD) can return for fd: it fails with EBADF on
\* a closed descriptor, and can fail with ENOMEM or ENOSPC on an open one.
AddOutcomes(fd) == IF FdOpen(fd) THEN SysOutcomes ELSE {"fail"}

\* epoll_ctl(epoll_fd, EPOLL_CTL_ADD, fd, EPOLLIN|EPOLLET): the interest
\* list after the call; a failed call (ENOMEM, ENOSPC) leaves it unchanged.
\* No caller in server.cpp looks at the result.
EpollCtlAdd(reg, fd, res) == IF res = "ok" THEN reg \cup {fd} ELSE reg

\* epoll_ctl(epoll_fd, EPOLL_CTL_DEL, fd, nullptr): fails with no effect on
\* a descriptor that is not on the interest list.
EpollCtlDel(set, fd) == set \ {fd}

\* line 138-139
M_Socket ==
    /\ mainpc = "socket"
    /\ \E res \in SysOutcomes :
        IF res = "ok"
        THEN lsock' = "open" /\ mainpc' = "bind"
        ELSE lsock' = lsock /\ mainpc' = "exit1"
    /\ UNCHANGED <<nonblock, epollVars, reactorVars, poolVars, workerVars, connVars>>

\* line 149-151
M_Bind ==
    /\ mainpc = "bind"
    /\ \E res \in SysOutcomes :
        IF res = "ok"
        THEN lsock' = "bound" /\ mainpc' = "listen"
        ELSE lsock' = lsock /\ mainpc' = "exit1"
    /\ UNCHANGED <<nonblock, epollVars, reactorVars, poolVars, workerVars, connVars>>

\* line 153-155
M_Listen ==
    /\ mainpc = "listen"
    /\ \E res \in SysOutcomes :
        IF res = "ok"
        THEN lsock' = "listening" /\ mainpc' = "nonblock"
        ELSE lsock' = lsock /\ mainpc' = "exit1"
    /\ UNCHANGED <<nonblock, epollVars, reactorVars, poolVars, workerVars, connVars>>

\* line 157 and line 159-160
M_EpollCreate ==
    /\ mainpc = "nonblock"
    /\ nonblock' = setNonBlocking(nonblock, LISTEN_FD)
    /\ \E res \in SysOutcomes :
        mainpc' = IF res = "ok" THEN "ctl_add" ELSE "exit1"
    /\ UNCHANGED <<lsock, epollVars, reactorVars, poolVars, workerVars, connVars>>

\* line 162-165: the result of epoll_ctl is not examined
M_CtlAdd ==
    /\ mainpc = "ctl_add"
    /\ \E res \in SysOutcomes :
        /\ registered' = EpollCtlAdd(registered, LISTEN_FD, res)
        /\ ready' = IF res = "ok" /\ backlog # <<>>
                    THEN ready \cup {LISTEN_FD} ELSE ready
    /\ mainpc' = "pool"
    /\ UNCHANGED <<lsock, nonblock, reactorVars, poolVars, workerVars, connVars>>

\* line 167, ThreadPool::ThreadPool line 27-42: the workers start
M_Pool ==
    /\ mainpc = "pool"
    /\ wpc' = [w \in Workers |-> "lock"]
    /\ mainpc' = "spawn"
    /\ UNCHANGED <<lsock, nonblock, epollVars, reactorVars, poolVars,
                   wfd, buffer, total, connVars>>

\* line 169-174: the reactor thread starts, main sleeps for ever
M_Spawn ==
    /\ mainpc = "spawn"
    /\ rpc' = "wait"
    /\ mainpc' = "sleep"
    /\ UNCHANGED <<lsock, nonblock, epollVars, events, client_fd, poolVars,
                   workerVars, connVars>>

Main == M_Socket \/ M_Bind \/ M_Listen \/ M_EpollCreate \/ M_CtlAdd \/ M_Pool \/ M_Spawn

\* --------------------------------------------------------------- reactor
\* The for loop of line 103: on to the next event, or back to epoll_wait
\* when events[0..nfds) is exhausted.
LoopNext(evs) == IF evs = {} THEN "wait" ELSE "for"

\* What epoll_wait reports: the descriptors of the ready list on which
\* EPOLLIN still holds, at most MAX_EVENTS of them.
Reportable == {fd \in ready : FdReadable(fd)}

EventBatches ==
    IF Cardinality(Reportable) <= MAX_EVENTS THEN {Reportable}
    ELSE {b \in SUBSET Reportable : Cardinality(b) = MAX_EVENTS}

\* line 96, nfds > 0: blocks (timeout -1) until something is reportable.
\* An edge-triggered entry leaves the ready list when it is scanned.
R_Wait ==
    /\ rpc = "wait"
    /\ Reportable # {}
    /\ \E b \in EventBatches :
        /\ events' = b
        /\ ready' = Reportable \ b
    /\ rpc' = "for"
    /\ UNCHANGED <<mainVars, nonblock, registered, client_fd, poolVars,
                   workerVars, connVars>>

\* line 96-98: epoll_wait returns -1 with errno EINTR
R_WaitEintr ==
    /\ rpc = "wait"
    /\ rpc' = "eintr"
    /\ UNCHANGED <<mainVars, nonblock, epollVars, events, client_fd, poolVars,
                   workerVars, connVars>>

\* An interrupted wait treated like any other failure: break.
R_Retry_Fatal ==
    /\ rpc = "eintr"
    /\ rpc' = "stopped"
    /\ UNCHANGED <<mainVars, nonblock, epollVars, events, client_fd, poolVars,
                   workerVars, connVars>>

\* line 98: continue
R_Retry ==
    /\ rpc = "eintr"
    /\ rpc' = "wait"
    /\ UNCHANGED <<mainVars, nonblock, epollVars, events, client_fd, poolVars,
                   workerVars, connVars>>

\* line 96-100: epoll_wait fails otherwise; perror, break, the thread ends
R_WaitError ==
    /\ rpc = "wait"
    /\ rpc' = "stopped"
    /\ UNCHANGED <<mainVars, nonblock, epollVars, events, client_fd, poolVars,
                   workerVars, connVars>>

\* line 103-107: the next event is the listening socket
R_ForListen ==
    /\ rpc = "for"
    /\ LISTEN_FD \in events
    /\ events' = events \ {LISTEN_FD}
    /\ rpc' = "accept"
    /\ UNCHANGED <<mainVars, nonblock, epollVars, client_fd, poolVars,
                   workerVars, connVars>>

\* What accept(listen_fd) can return: "conn" (a descriptor), "eagain" when a
\* non-blocking listener has nothing pending, "error" for any other failure
\* (ECONNABORTED, EMFILE, ENFILE, ENOMEM, ...).
AcceptOutcomes ==
    IF backlog # <<>> THEN {"conn", "error"}
    ELSE IF LISTEN_FD \in nonblock THEN {"eagain", "error"}
    ELSE {"error"}

\* An accept failure that ends the reactor loop.
AfterAcceptError_Fatal(evs) == "stopped"

\* The position after accept fails with an errno other than EAGAIN:
\* line 115-118, perror and break out of the accept loop only; the for loop
\* goes on.
AfterAcceptError(evs) == LoopNext(evs)

\* line 108-119: accept(listen_fd).  A new descriptor is blocking and not on
\* the interest list; would-block and any other error both end the loop.
R_Accept ==
    /\ rpc = "accept"
    /\ \E out \in AcceptOutcomes :
        IF out = "conn"
        THEN LET c == Head(backlog)
                 fd == LowestFreeFd
             IN  /\ backlog' = Tail(backlog)
                 /\ fdTable' = [fdTable EXCEPT ![fd] = c]
                 /\ cstate' = [cstate EXCEPT ![c] = "est"]
                 /\ client_fd' = fd
                 /\ rpc' = "register"
        ELSE /\ rpc' = IF out = "eagain" THEN LoopNext(events)
                       ELSE AfterAcceptError(events)
             /\ UNCHANGED <<client_fd, fdTable, backlog, cstate>>
    /\ UNCHANGED <<mainVars, nonblock, epollVars, events, poolVars, workerVars,
                   peer, nsent, rx, echoed>>

\* A registration that adds the listening descriptor once more.
RegisterTarget_Listen == LISTEN_FD

\* line 125-126: the descriptor handed to epoll_ctl(EPOLL_CTL_ADD)
RegisterTarget == client_fd

\* line 121-126: setNonBlocking(client_fd) and epoll_ctl(EPOLL_CTL_ADD);
\* neither result is examined.  A descriptor that is readable when it is
\* added is put on the ready list at once.
R_Register ==
    /\ rpc = "register"
    /\ nonblock' = setNonBlocking(nonblock, client_fd)
    /\ \E res \in AddOutcomes(RegisterTarget) :
        LET reg == EpollCtlAdd(registered, RegisterTarget, res) IN
        /\ registered' = reg
        /\ ready' = IF res = "ok" /\ FdReadable(RegisterTarget)
                    THEN Edge(ready, reg, RegisterTarget) ELSE ready
    /\ client_fd' = NoFd
    /\ rpc' = "accept"
    /\ UNCHANGED <<mainVars, events, poolVars, workerVars, connVars>>

\* A reactor that serves the event itself: it reads what is queued on the
\* descriptor and writes it back, and enqueues nothing.
R_Enqueue_Inline ==
    /\ rpc = "for"
    /\ \E fd \in events \ {LISTEN_FD} :
        /\ events' = events \ {fd}
        /\ rpc' = LoopNext(events \ {fd})
        /\ IF fdTable[fd] # Closed
           THEN /\ echoed' = [echoed EXCEPT ![fdTable[fd]] = @ \o rx[fdTable[fd]]]
                /\ rx' = [rx EXCEPT ![fdTable[fd]] = <<>>]
           ELSE UNCHANGED <<rx, echoed>>
    /\ UNCHANGED <<mainVars, nonblock, epollVars, client_fd, poolVars, workerVars,
                   fdTable, backlog, cstate, peer, nsent>>

\* line 130, ThreadPool::enqueue line 44-48: lock, push, unlock.  The push
\* is atomic with respect to the workers' critical sections (queue_mutex).
R_Enqueue ==
    /\ rpc = "for"
    /\ \E fd \in events \ {LISTEN_FD} :
        /\ events' = events \ {fd}
        /\ tasks' = Append(tasks, fd)
    /\ rpc' = "notify"
    /\ UNCHANGED <<mainVars, nonblock, epollVars, client_fd, workerVars, connVars>>

\* An enqueue whose notification wakes nobody.
R_Notify_Lost ==
    /\ rpc = "notify"
    /\ rpc' = LoopNext(events)
    /\ UNCHANGED <<mainVars, nonblock, epollVars, events, client_fd, poolVars,
                   workerVars, connVars>>

\* ThreadPool::enqueue line 49: cond.notify_one() wakes one waiting worker,
\* if there is one
R_Notify ==
    /\ rpc = "notify"
    /\ IF \E w \in Workers : wpc[w] = "waiting"
       THEN \E w \in Workers :
               /\ wpc[w] = "waiting"
               /\ wpc' = [wpc EXCEPT ![w] = "lock"]
       ELSE wpc' = wpc
    /\ rpc' = LoopNext(events)
    /\ UNCHANGED <<mainVars, nonblock, epollVars, events, client_fd, poolVars,
                   wfd, buffer, total, connVars>>

Reactor ==
    \/ R_Wait \/ R_WaitEintr \/ R_Retry \/ R_WaitError
    \/ R_ForListen \/ R_Accept \/ R_Register \/ R_Enqueue \/ R_Notify

\* ----------------------------------------------------------- worker pool
\* Mutant of WaitPred: cond.wait(lock) without a predicate, so that a
\* woken worker goes on whatever the queue holds.
WaitPred_NoPredicate == TRUE

\* line 34: the predicate of cond.wait
WaitPred == tasks # <<>>

\* line 35: tasks.front().  front() of an empty std::queue is undefined:
\* the task moved out of it is then any callable, none of them enqueued.
Front == IF tasks # <<>> THEN {Head(tasks)} ELSE ClientFds

\* A pop that removes the newest task instead of the oldest one.
Pop_Back == IF tasks # <<>> THEN SubSeq(tasks, 1, Len(tasks) - 1) ELSE tasks

\* line 36: tasks.pop()
Pop == IF tasks # <<>> THEN Tail(tasks) ELSE tasks

\* Lines 33-37 run with queue_mutex held, and so does the push of line 47:
\* each critical section is one step.

\* line 33-34, predicate false: cond.wait releases the mutex and blocks
W_Wait(w) ==
    /\ wpc[w] = "lock"
    /\ ~WaitPred
    /\ wpc' = [wpc EXCEPT ![w] = "waiting"]
    /\ UNCHANGED <<mainVars, nonblock, epollVars, reactorVars, poolVars,
                   wfd, buffer, total, connVars>>

\* a spurious wake-up of cond.wait: the worker re-acquires the mutex and
\* evaluates the predicate again
W_SpuriousWake(w) ==
    /\ wpc[w] = "waiting"
    /\ wpc' = [wpc EXCEPT ![w] = "lock"]
    /\ UNCHANGED <<mainVars, nonblock, epollVars, reactorVars, poolVars,
                   wfd, buffer, total, connVars>>

\* line 33-38, predicate true: take the front task, pop it, unlock, call it
W_Dequeue(w) ==
    /\ wpc[w] = "lock"
    /\ WaitPred
    /\ \E t \in Front : wfd' = [wfd EXCEPT ![w] = t]
    /\ tasks' = Pop
    /\ wpc' = [wpc EXCEPT ![w] = "read"]
    /\ UNCHANGED <<mainVars, nonblock, epollVars, reactorVars,
                   buffer, total, connVars>>

\* -------------------------------------------------------- handleClient
\* The handler returns (line 89) and the worker loops (line 30).
Return(w) ==
    /\ wpc' = [wpc EXCEPT ![w] = "lock"]
    /\ wfd' = [wfd EXCEPT ![w] = NoFd]
    /\ buffer' = [buffer EXCEPT ![w] = <<>>]
    /\ total' = [total EXCEPT ![w] = 0]

\* line 70, n > 0: read takes between 1 and sizeof(buffer) queued bytes
W_ReadData(w) ==
    /\ wpc[w] = "read"
    /\ LET c == fdTable[wfd[w]] IN
        /\ c # Closed
        /\ rx[c] # <<>>
        /\ \E n \in 1..Min(Len(rx[c]), BUFFER_SIZE) :
            /\ buffer' = [buffer EXCEPT ![w] = SubSeq(rx[c], 1, n)]
            /\ rx' = [rx EXCEPT ![c] = SubSeq(rx[c], n + 1, Len(rx[c]))]
    /\ total' = [total EXCEPT ![w] = 0]
    /\ wpc' = [wpc EXCEPT ![w] = "write"]
    /\ UNCHANGED <<mainVars, nonblock, epollVars, reactorVars, poolVars, wfd,
                   fdTable, backlog, cstate, peer, nsent, echoed>>

\* What read(fd) can return when no byte is queued: "eof" (0), "eagain"
\* (-1, EAGAIN) or "error" (-1 with another errno: EBADF on a closed
\* descriptor; ECONNRESET when the peer reset the connection, or answered
\* bytes echoed after its close with a reset).  On a descriptor without
\* O_NONBLOCK whose peer is open, read returns nothing: it blocks.  The
\* position "read" stands for a worker about to call read as well as for
\* one inside it, so a worker found blocked may still return EAGAIN once
\* the flag is set, as a call entered that late does.
ReadEmpty(fd) ==
    IF fdTable[fd] = Closed THEN {"error"}
    ELSE IF peer[fdTable[fd]] = "closed" THEN {"eof", "error"}
    ELSE IF fd \in nonblock THEN {"eagain"}
    ELSE {}

\* read finds no queued byte on the descriptor
NothingQueued(fd) == fdTable[fd] # Closed => rx[fdTable[fd]] = <<>>

\* line 70, 82-83: read would block; the handler returns
W_ReadAgain(w) ==
    /\ wpc[w] = "read"
    /\ NothingQueued(wfd[w])
    /\ "eagain" \in ReadEmpty(wfd[w])
    /\ Return(w)
    /\ UNCHANGED <<mainVars, nonblock, epollVars, reactorVars, poolVars, connVars>>

\* line 70, 78-79: read returns 0, end of stream; on to epoll_ctl
W_ReadEof(w) ==
    /\ wpc[w] = "read"
    /\ NothingQueued(wfd[w])
    /\ "eof" \in ReadEmpty(wfd[w])
    /\ wpc' = [wpc EXCEPT ![w] = "del"]
    /\ UNCHANGED <<mainVars, nonblock, epollVars, reactorVars, poolVars,
                   wfd, buffer, total, connVars>>

\* line 70, 82-84: read fails with an errno other than EAGAIN; on to epoll_ctl
W_ReadError(w) ==
    /\ wpc[w] = "read"
    /\ NothingQueued(wfd[w])
    /\ "error" \in ReadEmpty(wfd[w])
    /\ wpc' = [wpc EXCEPT ![w] = "del"]
    /\ UNCHANGED <<mainVars, nonblock, epollVars, reactorVars, poolVars,
                   wfd, buffer, total, connVars>>

\* What write(fd, buffer + total, n - total) can return: the number of bytes
\* taken, or -1 (EAGAIN on a full send buffer, EPIPE, ECONNRESET; EBADF on a
\* closed descriptor).
WriteOutcomes(fd, len) ==
    IF fdTable[fd] = Closed THEN {-1} ELSE {-1} \cup (1..len)

\* The position after a failed write: line 75 breaks out of the inner
\* while, which leads back to the read of line 70.
AfterWriteError == "read"

\* line 73-77: one iteration of the write loop
W_Write(w) ==
    /\ wpc[w] = "write"
    /\ LET fd == wfd[w]
           n == Len(buffer[w])
       IN \E written \in WriteOutcomes(fd, n - total[w]) :
            IF written <= 0
            THEN /\ wpc' = [wpc EXCEPT ![w] = AfterWriteError]
                 /\ buffer' = [buffer EXCEPT ![w] = <<>>]
                 /\ total' = [total EXCEPT ![w] = 0]
                 /\ echoed' = echoed
            ELSE /\ echoed' = [echoed EXCEPT ![fdTable[fd]] =
                        @ \o SubSeq(buffer[w], total[w] + 1, total[w] + written)]
                 /\ IF total[w] + written < n
                    THEN /\ total' = [total EXCEPT ![w] = total[w] + written]
                         /\ UNCHANGED <<wpc, buffer>>
                    ELSE /\ wpc' = [wpc EXCEPT ![w] = "read"]
                         /\ buffer' = [buffer EXCEPT ![w] = <<>>]
                         /\ total' = [total EXCEPT ![w] = 0]
    /\ UNCHANGED <<mainVars, nonblock, epollVars, reactorVars, poolVars, wfd,
                   fdTable, backlog, cstate, peer, nsent, rx>>

\* line 79 and 84: epoll_ctl(epoll_fd, EPOLL_CTL_DEL, fd, nullptr)
W_Del(w) ==
    /\ wpc[w] = "del"
    /\ registered' = EpollCtlDel(registered, wfd[w])
    /\ ready' = EpollCtlDel(ready, wfd[w])
    /\ wpc' = [wpc EXCEPT ![w] = "close"]
    /\ UNCHANGED <<mainVars, nonblock, reactorVars, poolVars, wfd, buffer,
                   total, connVars>>

\* line 80-81 and 85-86: close(fd), break.  Closing the descriptor drops it
\* from the epoll lists; close of a closed descriptor fails with EBADF.
W_Close(w) ==
    /\ wpc[w] = "close"
    /\ LET fd == wfd[w]
           c == fdTable[fd]
       IN IF c # Closed
          THEN /\ fdTable' = [fdTable EXCEPT ![fd] = Closed]
               /\ cstate' = [cstate EXCEPT ![c] = "closed"]
               /\ nonblock' = nonblock \ {fd}
               /\ registered' = registered \ {fd}
               /\ ready' = ready \ {fd}
          ELSE UNCHANGED <<fdTable, cstate, nonblock, registered, ready>>
    /\ Return(w)
    /\ UNCHANGED <<mainVars, reactorVars, poolVars, backlog, peer, nsent, rx, echoed>>

Worker(w) ==
    \/ W_Wait(w) \/ W_SpuriousWake(w) \/ W_Dequeue(w)
    \/ W_ReadData(w) \/ W_ReadAgain(w) \/ W_ReadEof(w) \/ W_ReadError(w)
    \/ W_Write(w) \/ W_Del(w) \/ W_Close(w)

\* --------------------------------------------------------------- clients
\* client.cpp line 31: connect() completes once the kernel has queued the
\* connection on the listening socket.  Connections are numbered in the
\* order in which they are made.
C_Connect(c) ==
    /\ lsock = "listening"
    /\ mainpc # "exit1"
    /\ cstate[c] = "idle"
    /\ \A d \in Conns : d < c => cstate[d] # "idle"
    /\ cstate' = [cstate EXCEPT ![c] = "pending"]
    /\ backlog' = Append(backlog, c)
    /\ ready' = Edge(ready, registered, LISTEN_FD)
    /\ UNCHANGED <<mainVars, nonblock, registered, reactorVars, poolVars,
                   workerVars, fdTable, peer, nsent, rx, echoed>>

\* client.cpp line 36: the next k bytes of the payload reach the server
C_Send(c) ==
    /\ cstate[c] \in {"pending", "est"}
    /\ peer[c] = "open"
    /\ nsent[c] < PayloadLen
    /\ \E k \in 1..(PayloadLen - nsent[c]) :
        /\ rx' = [rx EXCEPT ![c] = @ \o SubSeq(Payload(c), nsent[c] + 1, nsent[c] + k)]
        /\ nsent' = [nsent EXCEPT ![c] = @ + k]
    /\ ready' = ConnEdge(c)
    /\ UNCHANGED <<mainVars, nonblock, registered, reactorVars, poolVars,
                   workerVars, fdTable, backlog, cstate, peer, echoed>>

\* client.cpp line 47: the client closes its socket (or the connection is
\* reset)
C_Close(c) ==
    /\ cstate[c] \in {"pending", "est"}
    /\ peer[c] = "open"
    /\ peer' = [peer EXCEPT ![c] = "closed"]
    /\ ready' = ConnEdge(c)
    /\ UNCHANGED <<mainVars, nonblock, registered, reactorVars, poolVars,
                   workerVars, fdTable, backlog, cstate, nsent, rx, echoed>>

Client == \E c \in Conns : C_Connect(c) \/ C_Send(c) \/ C_Close(c)

\* ------------------------------------------------------- specification
Next == Main \/ Reactor \/ (\E w \in Workers : Worker(w)) \/ Client

Spec == Init /\ [][Next]_vars

\* The steps of worker w that need nothing but the processor: evaluating the
\* wait predicate, taking a task, and the system calls of the handler, which
\* return (a read that blocks is not enabled).  A spurious wake-up is not
\* among them: nothing promises one.
WorkerRun(w) ==
    \/ W_Wait(w) \/ W_Dequeue(w)
    \/ W_ReadData(w) \/ W_ReadAgain(w) \/ W_ReadEof(w) \/ W_ReadError(w)
    \/ W_Write(w) \/ W_Del(w) \/ W_Close(w)

\* The steps of the reactor thread that need nothing but the processor.
\* epoll_wait failing (EINTR or otherwise) is up to the environment.
ReactorRun ==
    \/ R_Wait \/ R_Retry \/ R_ForListen \/ R_Accept \/ R_Register
    \/ R_Enqueue \/ R_Notify

\* std::thread: every thread that can run does run eventually.  Clients and
\* failures are not obliged to do anything.
Fairness ==
    /\ WF_vars(ReactorRun)
    /\ \A w \in Workers : WF_vars(WorkerRun(w))

\* client.cpp line 21-50, clientTask: one request is connect, one send of
\* the whole message, one read that waits for the first echoed bytes, close.
ClientTask(c) ==
    \/ C_Connect(c)
    \/ C_Send(c) /\ nsent'[c] = PayloadLen
    \/ C_Close(c) /\ nsent[c] = PayloadLen /\ echoed[c] # <<>>

\* The server with the clients of client.cpp, its threads scheduled fairly.
TaskNext == Main \/ Reactor \/ (\E w \in Workers : Worker(w))
               \/ (\E c \in Conns : ClientTask(c))

FairSpec == Init /\ [][TaskNext]_vars /\ Fairness

\* ================================================================ claims
HandlerPcs == {"read", "write", "del", "close"}

\* Worker w is inside handleClient.
InHandler(w) == wpc[w] \in HandlerPcs

\* The bytes client c has sent so far.
Sent(c) == SubSeq(Payload(c), 1, nsent[c])

IsPrefix(s, t) == Len(s) <= Len(t) /\ SubSeq(t, 1, Len(s)) = s

\* No handler holds bytes it has read and not yet written.
NoBytesInHand == \A w \in Workers : buffer[w] = <<>>

\* C1: on every connection the bytes written back are exactly the bytes
\* received, in order: what was echoed is always a prefix of what the client
\* sent, and whenever no handler holds unwritten bytes, the echo followed by
\* the bytes still queued is the whole of what was sent (nothing is dropped,
\* duplicated or reordered).
C1_EchoExact ==
    \A c \in Conns :
        /\ IsPrefix(echoed[c], Sent(c))
        /\ (NoBytesInHand /\ cstate[c] = "est") => echoed[c] \o rx[c] = Sent(c)

\* C2: no two workers are inside handleClient for the same descriptor at
\* the same time.
C2_OneHandlerPerFd ==
    \A v, w \in Workers :
        (v # w /\ InHandler(v) /\ InHandler(w)) => wfd[v] # wfd[w]

\* C3: no read, write, epoll_ctl or close is issued on a descriptor that a
\* handler has closed: a worker inside handleClient, whose next step is a
\* system call on its descriptor, never holds a closed descriptor.
C3_NoUseAfterClose ==
    \A w \in Workers : InHandler(w) => fdTable[wfd[w]] # Closed

\* C4: no cross-talk: every byte written to a connection is a byte of that
\* connection's own payload.
C4_NoCrossTalk ==
    \A c \in Conns : \A i \in 1..Len(echoed[c]) :
        \E j \in 1..PayloadLen : echoed[c][i] = Payload(c)[j]

\* The server has nothing left to do: the reactor is blocked in epoll_wait
\* with nothing to report, no task is queued and no handler runs.
ServerIdle ==
    /\ rpc = "wait"
    /\ Reportable = {}
    /\ tasks = <<>>
    /\ \A w \in Workers : ~InHandler(w)

\* C5: every request is answered with its complete echo: when the server
\* has nothing left to do, every established and registered connection whose
\* client has sent its whole payload and still waits for the answer has
\* received the whole payload back.
C5_AllAnswered ==
    ServerIdle =>
        \A c \in Conns :
            (/\ cstate[c] = "est"
             /\ FdOf(c) \in registered
             /\ peer[c] = "open"
             /\ nsent[c] = PayloadLen)
                => echoed[c] = Payload(c)

\* C6: accept draining: the reactor never goes back to waiting with a
\* connection pending on the registered listener and no notification for
\* it on the ready list, that is, no pending connection waits for a
\* notification that never comes.
C6_NoStrandedPending ==
    (rpc = "wait" /\ LISTEN_FD \in registered)
        => (backlog = <<>> \/ LISTEN_FD \in ready)

\* C7: an I/O error is confined to its connection: the server closes only
\* a connection on which end of stream or an error can have been seen, that
\* is one whose client has closed or reset it; a live connection is never
\* closed on behalf of another.
C7_ErrorConfined ==
    \A c \in Conns : cstate[c] = "closed" => peer[c] = "closed"

\* C8: a failed write aborts the handler with an error outcome: the step
\* in which write returns -1 (the worker leaves the write loop and nothing
\* was written) leads to the deregister-and-close path, not to another read.
C8_WriteErrorAborts ==
    [][\A w \in Workers :
          (wpc[w] = "write" /\ wpc'[w] # "write" /\ echoed' = echoed)
              => wpc'[w] = "del"]_vars

\* C9: the reactor loop is only ever started with a listener that is bound,
\* listening and registered with the epoll instance.
C9_ListenerReady ==
    rpc # "none" => (lsock = "listening" /\ LISTEN_FD \in registered)

\* Worker w starts to execute a task in this step.
Starts(w) == ~InHandler(w) /\ wpc'[w] = "read"

\* C10: every enqueued task is dequeued and executed exactly once by exactly
\* one worker: a worker starts executing only the task at the head of a
\* non-empty queue, which it removes; the queue changes only by an enqueue at
\* its tail or by such a removal; and a task being executed stays with its
\* worker until the handler returns.
C10_ExactlyOnce ==
    [][/\ \A w \in Workers :
            Starts(w) => /\ tasks # <<>>
                         /\ wfd'[w] = Head(tasks)
                         /\ tasks' = Tail(tasks)
                         /\ \A v \in Workers \ {w} : ~Starts(v)
       /\ tasks' # tasks =>
            \/ \E fd \in ClientFds : tasks' = Append(tasks, fd)
            \/ /\ tasks # <<>>
               /\ tasks' = Tail(tasks)
               /\ \E w \in Workers : Starts(w)
       /\ \A w \in Workers :
            (InHandler(w) /\ wpc'[w] \in HandlerPcs) => wfd'[w] = wfd[w]
      ]_vars

\* C10 witness: both workers execute tasks they dequeued while a third
\* task waits in the queue.
C10_Witness ==
    /\ \A w \in Workers : InHandler(w)
    /\ tasks # <<>>

\* C11: tasks leave the shared queue in the order of their submission: the
\* queue holds the pending tasks oldest first, a submission adds at the
\* back and keeps the order of the tasks already pending, and a worker
\* takes the oldest pending task and leaves the order of the others as it is.
C11_Fifo ==
    [][tasks' # tasks =>
         \/ /\ Len(tasks') = Len(tasks) + 1
            /\ SubSeq(tasks', 1, Len(tasks)) = tasks
         \/ /\ Len(tasks') = Len(tasks) - 1
            /\ \A i \in 1..Len(tasks') : tasks'[i] = tasks[i + 1]
            /\ \E w \in Workers : Starts(w) /\ wfd'[w] = tasks[1]
      ]_vars

\* C11 witness: two tasks for different connections are pending while a
\* worker holds the mutex and is about to take one of them.
C11_Witness ==
    /\ Len(tasks) >= 2
    /\ tasks[1] # tasks[2]
    /\ \E w \in Workers : wpc[w] = "lock"

\* Worker w sits inside read(fd): the descriptor is open and lacks
\* O_NONBLOCK, no byte is queued and the peer has not closed.
BlockedInRead(w) ==
    /\ wpc[w] = "read"
    /\ FdOpen(wfd[w])
    /\ wfd[w] \notin nonblock
    /\ NothingQueued(wfd[w])
    /\ peer[fdTable[wfd[w]]] = "open"

\* C16: a worker blocks only while it waits for a task: no handler is
\* ever blocked inside read, because the descriptor it reads is
\* non-blocking.
C16_NeverBlocksInIo == \A w \in Workers : ~BlockedInRead(w)

\* Worker w is idle: it waits on the condition variable or is about to
\* evaluate the wait predicate.
Idle(w) == wpc[w] \in {"lock", "waiting"}

\* C12: no wake-up is lost.  The reactor's enqueue is always able to push
\* and to notify; while a task is pending and a worker waits on the
\* condition variable, a notification is still to come or a woken worker is
\* on its way to the queue; and an idle worker that sees a pending task
\* eventually executes a task unless the queue is drained by the others.
C12_NoLostWakeup ==
    /\ [](rpc = "for" /\ events # {} /\ LISTEN_FD \notin events
            => ENABLED R_Enqueue)
    /\ [](rpc = "notify" => ENABLED R_Notify)
    /\ []((tasks # <<>> /\ \E w \in Workers : wpc[w] = "waiting")
            => (rpc = "notify" \/ \E w \in Workers : wpc[w] = "lock"))
    /\ \A w \in Workers :
          (tasks # <<>> /\ Idle(w)) ~> (InHandler(w) \/ tasks = <<>>)

\* C12 witness: a task is pending, one worker waits on the condition
\* variable and the notification of the enqueue has been delivered.
C12_Witness ==
    /\ tasks # <<>>
    /\ \E w \in Workers : wpc[w] = "waiting"
    /\ rpc # "notify"

\* Connection c was closed by its client and is still open at the server.
HalfClosed(c) == cstate[c] = "est" /\ peer[c] = "closed"

\* C13: every connection closed by its client is closed by the server: when
\* the server has come to rest (the reactor blocked in epoll_wait with
\* nothing to report, no task queued, every worker idle) no connection that
\* its client closed is still open at the server.
C13_ClosedByServer == ServerIdle => \A c \in Conns : ~HalfClosed(c)

\* Worker w returns from the handler because read would block (line 83).
WouldBlockReturn(w) == wpc[w] = "read" /\ wpc'[w] = "lock"

\* C14: when a handler stops on would-block it leaves its connection open
\* and registered, so that bytes arriving later raise a new notification.
C14_StaysRegistered ==
    [][\A w \in Workers :
         WouldBlockReturn(w) =>
            /\ fdTable'[wfd[w]] # Closed
            /\ wfd[w] \in registered'
      ]_vars

\* C15: when the reactor leaves lines 121-126 for the next accept, the
\* connection it has just accepted, if still open, is non-blocking and is
\* on the interest list.
C15_AcceptedIsRegistered ==
    [][(rpc = "register" /\ rpc' # "register" /\ fdTable'[client_fd] # Closed)
         => /\ client_fd \in nonblock'
            /\ client_fd \in registered'
      ]_vars

\* C19: the reactor never issues EPOLL_CTL_ADD for a descriptor that is on
\* the interest list, also when a descriptor number is reused; and only
\* open descriptors are on the interest list.
C19_NoDoubleAdd ==
    /\ [][(rpc = "register" /\ rpc' # "register")
            => RegisterTarget \notin registered]_vars
    /\ [](\A fd \in registered : FdOpen(fd))

\* C19 witness: the second connection got the descriptor number of the
\* first one, which the server had closed, and has been registered.
C19_Witness ==
    /\ rpc = "accept"
    /\ fdTable[FirstClientFd] = 2
    /\ FirstClientFd \in registered

\* C17: an interrupted epoll_wait is retried: the reactor goes from the
\* failed call back into the wait and nowhere else, and neither step accepts,
\* dispatches or touches the interest list, the ready list, the event batch
\* or the task queue.  After any other failure of epoll_wait the reactor
\* has stopped for good: no connection is accepted, nothing is registered
\* and no task is enqueued from then on.
C17_WaitErrors ==
    [][/\ (rpc' # rpc /\ (rpc = "eintr" \/ rpc' = "eintr"))
            => /\ rpc = "eintr" => rpc' = "wait"
               /\ rpc' = "eintr" => rpc = "wait"
               /\ UNCHANGED <<registered, ready, events, client_fd, tasks,
                              fdTable, backlog, nonblock>>
       /\ rpc = "stopped"
            => /\ rpc' = "stopped"
               /\ \A fd \in ClientFds :
                     fdTable[fd] = Closed => fdTable'[fd] = Closed
               /\ registered' \subseteq registered
               /\ Len(tasks') <= Len(tasks)
               /\ UNCHANGED <<events, client_fd>>
      ]_vars

\* C17 witness: the reactor has stopped while a connection is pending on
\* the listener and the ready list has something to report.
C17_Witness ==
    /\ rpc = "stopped"
    /\ backlog # <<>>
    /\ Reportable # {}

\* The reactor leaves the accept loop in this step while a connection is
\* pending: accept has failed with an errno other than EAGAIN.
AcceptFails == rpc = "accept" /\ rpc' \notin {"accept", "register"} /\ backlog # <<>>

\* C18: a failed accept ends only the accept loop: the reactor goes on with
\* the rest of the batch, or back to the wait when the batch is done; the
\* step leaves the batch, the interest list, the open connections and the
\* pending connections as they are; and whenever the reactor accepts, it is
\* the oldest pending connection that it accepts, so that the connections
\* left pending are the first to be accepted when the listener is handled
\* again.
C18_AcceptErrorNotFatal ==
    [][/\ AcceptFails
            => /\ rpc' = IF events = {} THEN "wait" ELSE "for"
               /\ UNCHANGED <<events, client_fd, backlog, registered, nonblock,
                              fdTable, cstate, tasks, mainpc, wpc>>
       /\ (rpc = "accept" /\ rpc' = "register")
            => /\ backlog # <<>>
               /\ fdTable'[client_fd'] = Head(backlog)
               /\ backlog' = Tail(backlog)
      ]_vars

\* C18 witness: after a failed accept the reactor is back in the wait, one
\* connection accepted earlier is registered and another one is still
\* pending with no notification of the listener on the ready list.
C18_Witness ==
    /\ rpc = "wait"
    /\ LISTEN_FD \in registered
    /\ LISTEN_FD \notin ready
    /\ backlog # <<>>
    /\ \E fd \in ClientFds : fd \in registered /\ fdTable[fd] # Closed

\* The reactor thread takes this step.
ReactorStep == reactorVars' # reactorVars

\* Worker w takes this step inside the handler.
HandlerStep(w) ==
    /\ InHandler(w)
    /\ <<wpc'[w], buffer'[w], total'[w]>> # <<wpc[w], buffer[w], total[w]>>

\* C20: the reactor performs no connection I/O.  A step of the reactor
\* reads nothing, writes nothing, closes nothing and deregisters nothing;
\* an event of the batch that is not the listener's leaves the batch in
\* the step that enqueues one task for its descriptor, and the reactor
\* enqueues in no other step; every read, write and close of a connection
\* descriptor is a step of a worker inside the handler.
C20_ReactorNoIo ==
    [][/\ ReactorStep
            => /\ UNCHANGED <<rx, echoed, wfd, buffer, total>>
               /\ \A fd \in ClientFds :
                     fdTable[fd] # Closed => fdTable'[fd] = fdTable[fd]
               /\ registered \subseteq registered'
               /\ \A fd \in (events \ events') \ {LISTEN_FD} :
                     /\ events' = events \ {fd}
                     /\ tasks' = Append(tasks, fd)
               /\ tasks' # tasks => events' # events
       /\ (\/ echoed' # echoed
           \/ \E c \in Conns : Len(rx'[c]) < Len(rx[c])
           \/ \E fd \in ClientFds : fdTable[fd] # Closed /\ fdTable'[fd] = Closed)
            => \E w \in Workers : HandlerStep(w)
      ]_vars

\* C20 witness: the reactor has enqueued a task for a connection whose
\* bytes are still queued, unread, in the kernel.
C20_Witness ==
    /\ rpc = "notify"
    /\ tasks # <<>>
    /\ fdTable[tasks[Len(tasks)]] # Closed
    /\ rx[fdTable[tasks[Len(tasks)]]] # <<>>

====
